---- MODULE Spec2Model ----
(***************************************************************************)
(* Model of src/binary-search-tree.rs: an unbalanced binary search tree    *)
(* of Option<Box<Node<T>>> links with insert, search, delete, min/max,     *)
(* the three traversals, count_nodes, height and is_balanced.              *)
(*                                                                         *)
(* Option<Box<Node>> is a sequence of length 0 (None) or 1 (Some(node)).   *)
(* A Node is a record [value, left, right].  A &mut self method is an      *)
(* operator that returns both the method's return value and the state of   *)
(* self after the call, so that a mutation made before an early return is  *)
(* visible to the caller exactly as it is in the code.                     *)
(***************************************************************************)
EXTENDS Integers, Sequences, FiniteSets, TLC

\* Bounds of the model: T is instantiated as the integers 1..MaxVal.
MaxVal == 7
\* Bounds of the counting specification (SpecCount).
MaxCountVal == 3
MaxOps == 4

Values == 1..MaxVal
CountValues == 1..MaxCountVal

VARIABLES root, last, present, numInserted, numDeleted, everInserted,
          script, pc

vars == <<root, last, present, numInserted, numDeleted, everInserted,
          script, pc>>

None == <<>>
Some(n) == <<n>>

\* The nodes of the subtree under an Option link.
RECURSIVE NodesOf(_)
NodesOf(opt) ==
  IF opt = None THEN {}
  ELSE {opt[1]} \cup NodesOf(opt[1].left) \cup NodesOf(opt[1].right)

Max(a, b) == IF a >= b THEN a ELSE b
Abs(a) == IF a < 0 THEN 0 - a ELSE a

\* Node::new
Node_new(value) == [value |-> value, left |-> None, right |-> None]

\* Node::insert with Ordering::Equal handled by the Greater arm.
RECURSIVE Node_insert_ge(_, _)
Node_insert_ge(self, value) ==
  IF value < self.value THEN
    IF self.left # None THEN
      LET r == Node_insert_ge(self.left[1], value)
      IN  [result |-> r.result, self |-> [self EXCEPT !.left = Some(r.self)]]
    ELSE [result |-> "Ok", self |-> [self EXCEPT !.left = Some(Node_new(value))]]
  ELSE
    IF self.right # None THEN
      LET r == Node_insert_ge(self.right[1], value)
      IN  [result |-> r.result, self |-> [self EXCEPT !.right = Some(r.self)]]
    ELSE [result |-> "Ok", self |-> [self EXCEPT !.right = Some(Node_new(value))]]

\* Node::insert that replaces the node it finds equal before failing.
RECURSIVE Node_insert_replace(_, _)
Node_insert_replace(self, value) ==
  IF value < self.value THEN
    IF self.left # None THEN
      LET r == Node_insert_replace(self.left[1], value)
      IN  [result |-> r.result, self |-> [self EXCEPT !.left = Some(r.self)]]
    ELSE [result |-> "Ok", self |-> [self EXCEPT !.left = Some(Node_new(value))]]
  ELSE IF value > self.value THEN
    IF self.right # None THEN
      LET r == Node_insert_replace(self.right[1], value)
      IN  [result |-> r.result, self |-> [self EXCEPT !.right = Some(r.self)]]
    ELSE [result |-> "Ok", self |-> [self EXCEPT !.right = Some(Node_new(value))]]
  ELSE [result |-> "DuplicateValue", self |-> Node_new(value)]

\* Node::insert whose Less arm attaches the new node to self.right.
RECURSIVE Node_insert_paste(_, _)
Node_insert_paste(self, value) ==
  IF value < self.value THEN
    IF self.left # None THEN
      LET r == Node_insert_paste(self.left[1], value)
      IN  [result |-> r.result, self |-> [self EXCEPT !.left = Some(r.self)]]
    ELSE [result |-> "Ok", self |-> [self EXCEPT !.right = Some(Node_new(value))]]
  ELSE IF value > self.value THEN
    IF self.right # None THEN
      LET r == Node_insert_paste(self.right[1], value)
      IN  [result |-> r.result, self |-> [self EXCEPT !.right = Some(r.self)]]
    ELSE [result |-> "Ok", self |-> [self EXCEPT !.right = Some(Node_new(value))]]
  ELSE [result |-> "DuplicateValue", self |-> self]

\* Node::insert: returns the Result and the node after the call.
RECURSIVE Node_insert(_, _)
Node_insert(self, value) ==
  IF value < self.value THEN
    IF self.left # None THEN
      LET r == Node_insert(self.left[1], value)
      IN  [result |-> r.result, self |-> [self EXCEPT !.left = Some(r.self)]]
    ELSE [result |-> "Ok", self |-> [self EXCEPT !.left = Some(Node_new(value))]]
  ELSE IF value > self.value THEN
    IF self.right # None THEN
      LET r == Node_insert(self.right[1], value)
      IN  [result |-> r.result, self |-> [self EXCEPT !.right = Some(r.self)]]
    ELSE [result |-> "Ok", self |-> [self EXCEPT !.right = Some(Node_new(value))]]
  ELSE [result |-> "DuplicateValue", self |-> self]

\* Node::search with map_or(true, ..) in the Less arm.
RECURSIVE Node_search_default(_, _)
Node_search_default(self, value) ==
  IF value < self.value THEN
    IF self.left = None THEN TRUE ELSE Node_search_default(self.left[1], value)
  ELSE IF value > self.value THEN
    IF self.right = None THEN FALSE ELSE Node_search_default(self.right[1], value)
  ELSE TRUE

\* Node::search
RECURSIVE Node_search(_, _)
Node_search(self, value) ==
  IF value < self.value THEN
    IF self.left = None THEN FALSE ELSE Node_search(self.left[1], value)
  ELSE IF value > self.value THEN
    IF self.right = None THEN FALSE ELSE Node_search(self.right[1], value)
  ELSE TRUE

\* Node::find_min
RECURSIVE Node_find_min(_)
Node_find_min(self) ==
  IF self.left = None THEN self.value ELSE Node_find_min(self.left[1])

\* Node::find_max that follows self.left.
RECURSIVE Node_find_max_left(_)
Node_find_max_left(self) ==
  IF self.left = None THEN self.value ELSE Node_find_max_left(self.left[1])

\* Node::find_max
RECURSIVE Node_find_max(_)
Node_find_max(self) ==
  IF self.right = None THEN self.value ELSE Node_find_max(self.right[1])

\* The tail of Node::delete with the two children exchanged in the new box.
Node_delete_rebuild_swapped(self) ==
  [result |-> "Ok",
   ret    |-> Some([value |-> self.value, left |-> self.right, right |-> self.left]),
   self   |-> [self EXCEPT !.left = None, !.right = None]]

\* The tail of Node::delete (lines 111-115): a new box is built from the
\* node's value and its two children, which are taken out of self.
Node_delete_rebuild(self) ==
  [result |-> "Ok",
   ret    |-> Some([value |-> self.value, left |-> self.left, right |-> self.right]),
   self   |-> [self EXCEPT !.left = None, !.right = None]]

\* Node::delete whose two-child arm overwrites the value and does not delete
\* the successor from the right subtree.
RECURSIVE Node_delete_keep_successor(_, _)
Node_delete_keep_successor(self, value) ==
  IF value < self.value THEN
    IF self.left # None THEN
      LET r == Node_delete_keep_successor(self.left[1], value)
      IN  IF r.result # "Ok"
          THEN [result |-> r.result, ret |-> None,
                self |-> [self EXCEPT !.left = Some(r.self)]]
          ELSE Node_delete_rebuild([self EXCEPT !.left = r.ret])
    ELSE [result |-> "ValueNotFound", ret |-> None, self |-> self]
  ELSE IF value > self.value THEN
    IF self.right # None THEN
      LET r == Node_delete_keep_successor(self.right[1], value)
      IN  IF r.result # "Ok"
          THEN [result |-> r.result, ret |-> None,
                self |-> [self EXCEPT !.right = Some(r.self)]]
          ELSE Node_delete_rebuild([self EXCEPT !.right = r.ret])
    ELSE [result |-> "ValueNotFound", ret |-> None, self |-> self]
  ELSE
    IF self.left = None THEN
      [result |-> "Ok", ret |-> self.right, self |-> [self EXCEPT !.right = None]]
    ELSE IF self.right = None THEN
      [result |-> "Ok", ret |-> self.left, self |-> [self EXCEPT !.left = None]]
    ELSE
      Node_delete_rebuild([self EXCEPT !.value = Node_find_min(self.right[1])])

\* Node::delete that takes the child out of its slot before recursing into
\* it, so that a failing recursion leaves the slot empty.
RECURSIVE Node_delete_take_first(_, _)
Node_delete_take_first(self, value) ==
  IF value < self.value THEN
    IF self.left # None THEN
      LET r == Node_delete_take_first(self.left[1], value)
      IN  IF r.result # "Ok"
          THEN [result |-> r.result, ret |-> None,
                self |-> [self EXCEPT !.left = None]]
          ELSE Node_delete_rebuild([self EXCEPT !.left = r.ret])
    ELSE [result |-> "ValueNotFound", ret |-> None, self |-> self]
  ELSE IF value > self.value THEN
    IF self.right # None THEN
      LET r == Node_delete_take_first(self.right[1], value)
      IN  IF r.result # "Ok"
          THEN [result |-> r.result, ret |-> None,
                self |-> [self EXCEPT !.right = None]]
          ELSE Node_delete_rebuild([self EXCEPT !.right = r.ret])
    ELSE [result |-> "ValueNotFound", ret |-> None, self |-> self]
  ELSE
    IF self.left = None THEN
      [result |-> "Ok", ret |-> self.right, self |-> [self EXCEPT !.right = None]]
    ELSE IF self.right = None THEN
      [result |-> "Ok", ret |-> self.left, self |-> [self EXCEPT !.left = None]]
    ELSE
      LET min_value == Node_find_min(self.right[1])
          s1 == [self EXCEPT !.value = min_value]
          r  == Node_delete_take_first(s1.right[1], s1.value)
      IN  IF r.result # "Ok"
          THEN [result |-> r.result, ret |-> None,
                self |-> [s1 EXCEPT !.right = None]]
          ELSE Node_delete_rebuild([s1 EXCEPT !.right = r.ret])

\* Node::delete that treats an absent child on the search path as nothing to
\* do and returns Ok.
RECURSIVE Node_delete_ignore_missing(_, _)
Node_delete_ignore_missing(self, value) ==
  IF value < self.value THEN
    IF self.left # None THEN
      LET r == Node_delete_ignore_missing(self.left[1], value)
      IN  IF r.result # "Ok"
          THEN [result |-> r.result, ret |-> None,
                self |-> [self EXCEPT !.left = Some(r.self)]]
          ELSE Node_delete_rebuild([self EXCEPT !.left = r.ret])
    ELSE Node_delete_rebuild(self)
  ELSE IF value > self.value THEN
    IF self.right # None THEN
      LET r == Node_delete_ignore_missing(self.right[1], value)
      IN  IF r.result # "Ok"
          THEN [result |-> r.result, ret |-> None,
                self |-> [self EXCEPT !.right = Some(r.self)]]
          ELSE Node_delete_rebuild([self EXCEPT !.right = r.ret])
    ELSE Node_delete_rebuild(self)
  ELSE
    IF self.left = None THEN
      [result |-> "Ok", ret |-> self.right, self |-> [self EXCEPT !.right = None]]
    ELSE IF self.right = None THEN
      [result |-> "Ok", ret |-> self.left, self |-> [self EXCEPT !.left = None]]
    ELSE
      LET min_value == Node_find_min(self.right[1])
          s1 == [self EXCEPT !.value = min_value]
          r  == Node_delete_ignore_missing(s1.right[1], s1.value)
      IN  IF r.result # "Ok"
          THEN [result |-> r.result, ret |-> None,
                self |-> [s1 EXCEPT !.right = Some(r.self)]]
          ELSE Node_delete_rebuild([s1 EXCEPT !.right = r.ret])

\* Node::delete whose two-child arm takes the in-order predecessor (the
\* maximum of the left subtree) in place of the successor.
RECURSIVE Node_delete_predecessor(_, _)
Node_delete_predecessor(self, value) ==
  IF value < self.value THEN
    IF self.left # None THEN
      LET r == Node_delete_predecessor(self.left[1], value)
      IN  IF r.result # "Ok"
          THEN [result |-> r.result, ret |-> None,
                self |-> [self EXCEPT !.left = Some(r.self)]]
          ELSE Node_delete_rebuild([self EXCEPT !.left = r.ret])
    ELSE [result |-> "ValueNotFound", ret |-> None, self |-> self]
  ELSE IF value > self.value THEN
    IF self.right # None THEN
      LET r == Node_delete_predecessor(self.right[1], value)
      IN  IF r.result # "Ok"
          THEN [result |-> r.result, ret |-> None,
                self |-> [self EXCEPT !.right = Some(r.self)]]
          ELSE Node_delete_rebuild([self EXCEPT !.right = r.ret])
    ELSE [result |-> "ValueNotFound", ret |-> None, self |-> self]
  ELSE
    IF self.left = None THEN
      [result |-> "Ok", ret |-> self.right, self |-> [self EXCEPT !.right = None]]
    ELSE IF self.right = None THEN
      [result |-> "Ok", ret |-> self.left, self |-> [self EXCEPT !.left = None]]
    ELSE
      LET max_value == Node_find_max(self.left[1])
          s1 == [self EXCEPT !.value = max_value]
          r  == Node_delete_predecessor(s1.left[1], s1.value)
      IN  IF r.result # "Ok"
          THEN [result |-> r.result, ret |-> None,
                self |-> [s1 EXCEPT !.left = Some(r.self)]]
          ELSE Node_delete_rebuild([s1 EXCEPT !.left = r.ret])

\* Node::delete without the self.right.is_none() arm: a node with a left
\* child only reaches the unwrap() of its absent right child, which panics.
RECURSIVE Node_delete_no_right_check(_, _)
Node_delete_no_right_check(self, value) ==
  IF value < self.value THEN
    IF self.left # None THEN
      LET r == Node_delete_no_right_check(self.left[1], value)
      IN  IF r.result # "Ok"
          THEN [result |-> r.result, ret |-> None,
                self |-> [self EXCEPT !.left = Some(r.self)]]
          ELSE Node_delete_rebuild([self EXCEPT !.left = r.ret])
    ELSE [result |-> "ValueNotFound", ret |-> None, self |-> self]
  ELSE IF value > self.value THEN
    IF self.right # None THEN
      LET r == Node_delete_no_right_check(self.right[1], value)
      IN  IF r.result # "Ok"
          THEN [result |-> r.result, ret |-> None,
                self |-> [self EXCEPT !.right = Some(r.self)]]
          ELSE Node_delete_rebuild([self EXCEPT !.right = r.ret])
    ELSE [result |-> "ValueNotFound", ret |-> None, self |-> self]
  ELSE
    IF self.left = None THEN
      [result |-> "Ok", ret |-> self.right, self |-> [self EXCEPT !.right = None]]
    ELSE IF self.right = None THEN
      [result |-> "Panic", ret |-> None, self |-> self]
    ELSE
      LET min_value == Node_find_min(self.right[1])
          s1 == [self EXCEPT !.value = min_value]
          r  == Node_delete_no_right_check(s1.right[1], s1.value)
      IN  IF r.result # "Ok"
          THEN [result |-> r.result, ret |-> None,
                self |-> [s1 EXCEPT !.right = Some(r.self)]]
          ELSE Node_delete_rebuild([s1 EXCEPT !.right = r.ret])

\* Node::delete whose no-left-child arm returns None in place of the right
\* child.
RECURSIVE Node_delete_drop_right(_, _)
Node_delete_drop_right(self, value) ==
  IF value < self.value THEN
    IF self.left # None THEN
      LET r == Node_delete_drop_right(self.left[1], value)
      IN  IF r.result # "Ok"
          THEN [result |-> r.result, ret |-> None,
                self |-> [self EXCEPT !.left = Some(r.self)]]
          ELSE Node_delete_rebuild([self EXCEPT !.left = r.ret])
    ELSE [result |-> "ValueNotFound", ret |-> None, self |-> self]
  ELSE IF value > self.value THEN
    IF self.right # None THEN
      LET r == Node_delete_drop_right(self.right[1], value)
      IN  IF r.result # "Ok"
          THEN [result |-> r.result, ret |-> None,
                self |-> [self EXCEPT !.right = Some(r.self)]]
          ELSE Node_delete_rebuild([self EXCEPT !.right = r.ret])
    ELSE [result |-> "ValueNotFound", ret |-> None, self |-> self]
  ELSE
    IF self.left = None THEN
      [result |-> "Ok", ret |-> None, self |-> self]
    ELSE IF self.right = None THEN
      [result |-> "Ok", ret |-> self.left, self |-> [self EXCEPT !.left = None]]
    ELSE
      LET min_value == Node_find_min(self.right[1])
          s1 == [self EXCEPT !.value = min_value]
          r  == Node_delete_drop_right(s1.right[1], s1.value)
      IN  IF r.result # "Ok"
          THEN [result |-> r.result, ret |-> None,
                self |-> [s1 EXCEPT !.right = Some(r.self)]]
          ELSE Node_delete_rebuild([s1 EXCEPT !.right = r.ret])

\* Node::delete: returns the Result tag, the Option<Box<Node>> carried by Ok
\* and the node after the call.
RECURSIVE Node_delete(_, _)
Node_delete(self, value) ==
  IF value < self.value THEN
    IF self.left # None THEN
      LET r == Node_delete(self.left[1], value)
      IN  IF r.result # "Ok"
          THEN [result |-> r.result, ret |-> None,
                self |-> [self EXCEPT !.left = Some(r.self)]]
          ELSE Node_delete_rebuild([self EXCEPT !.left = r.ret])
    ELSE [result |-> "ValueNotFound", ret |-> None, self |-> self]
  ELSE IF value > self.value THEN
    IF self.right # None THEN
      LET r == Node_delete(self.right[1], value)
      IN  IF r.result # "Ok"
          THEN [result |-> r.result, ret |-> None,
                self |-> [self EXCEPT !.right = Some(r.self)]]
          ELSE Node_delete_rebuild([self EXCEPT !.right = r.ret])
    ELSE [result |-> "ValueNotFound", ret |-> None, self |-> self]
  ELSE
    IF self.left = None THEN
      [result |-> "Ok", ret |-> self.right, self |-> [self EXCEPT !.right = None]]
    ELSE IF self.right = None THEN
      [result |-> "Ok", ret |-> self.left, self |-> [self EXCEPT !.left = None]]
    ELSE
      LET min_value == Node_find_min(self.right[1])
          s1 == [self EXCEPT !.value = min_value]
          r  == Node_delete(s1.right[1], s1.value)
      IN  IF r.result # "Ok"
          THEN [result |-> r.result, ret |-> None,
                self |-> [s1 EXCEPT !.right = Some(r.self)]]
          ELSE Node_delete_rebuild([s1 EXCEPT !.right = r.ret])

\* Node::in_order_traversal: result is the vector being filled.
RECURSIVE Node_in_order_traversal(_, _)
Node_in_order_traversal(self, result) ==
  LET r1 == IF self.left # None
            THEN Node_in_order_traversal(self.left[1], result) ELSE result
      r2 == Append(r1, self.value)
  IN  IF self.right # None
      THEN Node_in_order_traversal(self.right[1], r2) ELSE r2

\* Node::pre_order_traversal that pushes the value after the left subtree.
RECURSIVE Node_pre_order_traversal_mid(_, _)
Node_pre_order_traversal_mid(self, result) ==
  LET r1 == IF self.left # None
            THEN Node_pre_order_traversal_mid(self.left[1], result) ELSE result
      r2 == Append(r1, self.value)
  IN  IF self.right # None
      THEN Node_pre_order_traversal_mid(self.right[1], r2) ELSE r2

\* Node::pre_order_traversal
RECURSIVE Node_pre_order_traversal(_, _)
Node_pre_order_traversal(self, result) ==
  LET r1 == Append(result, self.value)
      r2 == IF self.left # None
            THEN Node_pre_order_traversal(self.left[1], r1) ELSE r1
  IN  IF self.right # None
      THEN Node_pre_order_traversal(self.right[1], r2) ELSE r2

\* Node::post_order_traversal that does not visit the right subtree.
RECURSIVE Node_post_order_traversal_left(_, _)
Node_post_order_traversal_left(self, result) ==
  LET r1 == IF self.left # None
            THEN Node_post_order_traversal_left(self.left[1], result) ELSE result
  IN  Append(r1, self.value)

\* Node::post_order_traversal
RECURSIVE Node_post_order_traversal(_, _)
Node_post_order_traversal(self, result) ==
  LET r1 == IF self.left # None
            THEN Node_post_order_traversal(self.left[1], result) ELSE result
      r2 == IF self.right # None
            THEN Node_post_order_traversal(self.right[1], r1) ELSE r1
  IN  Append(r2, self.value)

\* Node::count_nodes that does not add the right subtree.
RECURSIVE Node_count_nodes_left(_)
Node_count_nodes_left(self) ==
  1 + (IF self.left # None THEN Node_count_nodes_left(self.left[1]) ELSE 0)

\* Node::count_nodes
RECURSIVE Node_count_nodes(_)
Node_count_nodes(self) ==
  LET c1 == 1 + (IF self.left # None THEN Node_count_nodes(self.left[1]) ELSE 0)
  IN  c1 + (IF self.right # None THEN Node_count_nodes(self.right[1]) ELSE 0)

\* Node::height that ignores the right subtree.
RECURSIVE Node_height_left(_)
Node_height_left(self) ==
  LET left_height == IF self.left = None THEN 0 ELSE Node_height_left(self.left[1])
  IN  1 + left_height

\* Node::height with min in place of max.
RECURSIVE Node_height_min(_)
Node_height_min(self) ==
  LET left_height  == IF self.left = None THEN 0 ELSE Node_height_min(self.left[1])
      right_height == IF self.right = None THEN 0 ELSE Node_height_min(self.right[1])
  IN  1 + (IF left_height <= right_height THEN left_height ELSE right_height)

\* Node::height
RECURSIVE Node_height(_)
Node_height(self) ==
  LET left_height  == IF self.left = None THEN 0 ELSE Node_height(self.left[1])
      right_height == IF self.right = None THEN 0 ELSE Node_height(self.right[1])
  IN  1 + Max(left_height, right_height)

\* Node::is_balanced that also requires both subtrees to be balanced.
RECURSIVE Node_is_balanced_deep(_)
Node_is_balanced_deep(self) ==
  LET left_height  == IF self.left = None THEN 0 ELSE Node_height(self.left[1])
      right_height == IF self.right = None THEN 0 ELSE Node_height(self.right[1])
  IN  /\ Abs(left_height - right_height) <= 1
      /\ (self.left # None => Node_is_balanced_deep(self.left[1]))
      /\ (self.right # None => Node_is_balanced_deep(self.right[1]))

\* Node::is_balanced
Node_is_balanced(self) ==
  LET left_height  == IF self.left = None THEN 0 ELSE Node_height(self.left[1])
      right_height == IF self.right = None THEN 0 ELSE Node_height(self.right[1])
  IN  Abs(left_height - right_height) <= 1

\* BinarySearchTree::insert: the Result and the root after the call.
BinarySearchTree_insert(rt, value) ==
  IF rt # None THEN
    LET r == Node_insert(rt[1], value)
    IN  [result |-> r.result, root |-> Some(r.self)]
  ELSE [result |-> "Ok", root |-> Some(Node_new(value))]

\* BinarySearchTree::search
BinarySearchTree_search(rt, value) ==
  IF rt = None THEN FALSE ELSE Node_search(rt[1], value)

\* BinarySearchTree::delete that returns Ok on the empty tree.
BinarySearchTree_delete_empty_ok(rt, value) ==
  IF rt # None THEN
    LET r == Node_delete(rt[1], value)
    IN  IF r.result # "Ok"
        THEN [result |-> r.result, root |-> Some(r.self)]
        ELSE [result |-> "Ok", root |-> r.ret]
  ELSE [result |-> "Ok", root |-> rt]

\* BinarySearchTree::delete: on Err the `?` returns before the assignment to
\* self.root, so the root stays the node as the failed call left it.
BinarySearchTree_delete(rt, value) ==
  IF rt # None THEN
    LET r == Node_delete(rt[1], value)
    IN  IF r.result # "Ok"
        THEN [result |-> r.result, root |-> Some(r.self)]
        ELSE [result |-> "Ok", root |-> r.ret]
  ELSE [result |-> "ValueNotFound", root |-> rt]

\* BinarySearchTree::find_min / find_max: an Option.
BinarySearchTree_find_min(rt) ==
  IF rt = None THEN None ELSE Some(Node_find_min(rt[1]))

BinarySearchTree_find_max(rt) ==
  IF rt = None THEN None ELSE Some(Node_find_max(rt[1]))

BinarySearchTree_in_order_traversal(rt) ==
  IF rt # None THEN Node_in_order_traversal(rt[1], <<>>) ELSE <<>>

BinarySearchTree_pre_order_traversal(rt) ==
  IF rt # None THEN Node_pre_order_traversal(rt[1], <<>>) ELSE <<>>

BinarySearchTree_post_order_traversal(rt) ==
  IF rt # None THEN Node_post_order_traversal(rt[1], <<>>) ELSE <<>>

BinarySearchTree_count_nodes(rt) ==
  IF rt = None THEN 0 ELSE Node_count_nodes(rt[1])

BinarySearchTree_is_balanced(rt) ==
  IF rt = None THEN TRUE ELSE Node_is_balanced(rt[1])

BinarySearchTree_height(rt) ==
  IF rt = None THEN 0 ELSE Node_height(rt[1])

----------------------------------------------------------------------------
\* The recursion of each method as the number of frames (calls of the method
\* on a node, the first included) one call makes.

\* Node::insert
RECURSIVE Frames_insert(_, _)
Frames_insert(self, value) ==
  IF value < self.value THEN
    IF self.left # None THEN 1 + Frames_insert(self.left[1], value) ELSE 1
  ELSE IF value > self.value THEN
    IF self.right # None THEN 1 + Frames_insert(self.right[1], value) ELSE 1
  ELSE 1

\* Node::search
RECURSIVE Frames_search(_, _)
Frames_search(self, value) ==
  IF value < self.value THEN
    IF self.left = None THEN 1 ELSE 1 + Frames_search(self.left[1], value)
  ELSE IF value > self.value THEN
    IF self.right = None THEN 1 ELSE 1 + Frames_search(self.right[1], value)
  ELSE 1

\* Node::find_min
RECURSIVE Frames_find_min(_)
Frames_find_min(self) ==
  IF self.left = None THEN 1 ELSE 1 + Frames_find_min(self.left[1])

\* Node::find_max
RECURSIVE Frames_find_max(_)
Frames_find_max(self) ==
  IF self.right = None THEN 1 ELSE 1 + Frames_find_max(self.right[1])

\* Node::delete: its own frames; the two-child arm recurses into the right
\* subtree with the value it has just written into self.
RECURSIVE Frames_delete(_, _)
Frames_delete(self, value) ==
  IF value < self.value THEN
    IF self.left # None THEN 1 + Frames_delete(self.left[1], value) ELSE 1
  ELSE IF value > self.value THEN
    IF self.right # None THEN 1 + Frames_delete(self.right[1], value) ELSE 1
  ELSE
    IF self.left = None THEN 1
    ELSE IF self.right = None THEN 1
    ELSE 1 + Frames_delete(self.right[1], Node_find_min(self.right[1]))

\* Node::delete: the frames of the find_min call its two-child arm makes,
\* over the whole call.
RECURSIVE Frames_delete_find_min(_, _)
Frames_delete_find_min(self, value) ==
  IF value < self.value THEN
    IF self.left # None THEN Frames_delete_find_min(self.left[1], value) ELSE 0
  ELSE IF value > self.value THEN
    IF self.right # None THEN Frames_delete_find_min(self.right[1], value) ELSE 0
  ELSE
    IF self.left = None THEN 0
    ELSE IF self.right = None THEN 0
    ELSE Frames_find_min(self.right[1])
         + Frames_delete_find_min(self.right[1], Node_find_min(self.right[1]))

\* Node::in_order_traversal
RECURSIVE Frames_in_order_traversal(_)
Frames_in_order_traversal(self) ==
  (IF self.left # None THEN Frames_in_order_traversal(self.left[1]) ELSE 0)
  + 1
  + (IF self.right # None THEN Frames_in_order_traversal(self.right[1]) ELSE 0)

\* Node::pre_order_traversal
RECURSIVE Frames_pre_order_traversal(_)
Frames_pre_order_traversal(self) ==
  1
  + (IF self.left # None THEN Frames_pre_order_traversal(self.left[1]) ELSE 0)
  + (IF self.right # None THEN Frames_pre_order_traversal(self.right[1]) ELSE 0)

\* Node::post_order_traversal
RECURSIVE Frames_post_order_traversal(_)
Frames_post_order_traversal(self) ==
  (IF self.left # None THEN Frames_post_order_traversal(self.left[1]) ELSE 0)
  + (IF self.right # None THEN Frames_post_order_traversal(self.right[1]) ELSE 0)
  + 1

\* Node::count_nodes
RECURSIVE Frames_count_nodes(_)
Frames_count_nodes(self) ==
  1
  + (IF self.left # None THEN Frames_count_nodes(self.left[1]) ELSE 0)
  + (IF self.right # None THEN Frames_count_nodes(self.right[1]) ELSE 0)

\* Node::height that calls height() on the taller child a second time.
RECURSIVE Frames_height_twice(_)
Frames_height_twice(self) ==
  LET l == IF self.left = None THEN 0 ELSE Frames_height_twice(self.left[1])
      r == IF self.right = None THEN 0 ELSE Frames_height_twice(self.right[1])
      lh == IF self.left = None THEN 0 ELSE Node_height(self.left[1])
      rh == IF self.right = None THEN 0 ELSE Node_height(self.right[1])
  IN  1 + l + r + (IF lh > rh THEN l ELSE r)

\* Node::height
RECURSIVE Frames_height(_)
Frames_height(self) ==
  1
  + (IF self.left = None THEN 0 ELSE Frames_height(self.left[1]))
  + (IF self.right = None THEN 0 ELSE Frames_height(self.right[1]))

\* Node::is_balanced: one frame and a height() call on each child.
Frames_is_balanced(self) ==
  1
  + (IF self.left = None THEN 0 ELSE Frames_height(self.left[1]))
  + (IF self.right = None THEN 0 ELSE Frames_height(self.right[1]))

----------------------------------------------------------------------------
\* The state machine.  root is BinarySearchTree.root; last is the last call
\* and the Result it returned, with a note of whether a delete was called
\* for the value of a node with two children.  present, numInserted, numDeleted and
\* everInserted are history variables: the abstract set of values, the
\* numbers of successful insert and delete calls and the set of values
\* that were ever successfully inserted.  script is the sequence of mutating
\* calls of a driver such as main and pc the number of them already made;
\* outside the driver specification the script is empty.

\* BinarySearchTree::new
Init ==
  /\ root = None
  /\ last = [op |-> "new", arg |-> 0, result |-> "Ok", twoChildren |-> FALSE]
  /\ present = {}
  /\ numInserted = 0
  /\ numDeleted = 0
  /\ everInserted = {}
  /\ script = <<>>
  /\ pc = 0

\* A call bst.insert(v).
InsertCall(v) ==
  LET r == BinarySearchTree_insert(root, v)
  IN  /\ root' = r.root
      /\ last' = [op |-> "insert", arg |-> v, result |-> r.result,
                  twoChildren |-> FALSE]
      /\ present' = IF r.result = "Ok" THEN present \cup {v} ELSE present

\* A call bst.delete(v).
DeleteCall(v) ==
  LET r == BinarySearchTree_delete(root, v)
  IN  /\ root' = r.root
      /\ last' = [op |-> "delete", arg |-> v, result |-> r.result,
                  twoChildren |-> \E n \in NodesOf(root) :
                                    /\ n.value = v
                                    /\ n.left # None /\ n.right # None]
      /\ present' = IF r.result = "Ok" THEN present \ {v} ELSE present

Insert(v) ==
  /\ InsertCall(v)
  /\ UNCHANGED <<numInserted, numDeleted, everInserted, script, pc>>

Delete(v) ==
  /\ DeleteCall(v)
  /\ UNCHANGED <<numInserted, numDeleted, everInserted, script, pc>>

Next ==
  \/ \E v \in Values : Insert(v)
  \/ \E v \in Values : Delete(v)

Spec == Init /\ [][Next]_vars

\* The same calls with the call counters kept; the number of calls counted
\* is capped so that the counters stay finite.
InsertCounted(v) ==
  /\ numInserted < MaxOps
  /\ InsertCall(v)
  /\ numInserted' = IF last'.result = "Ok" THEN numInserted + 1 ELSE numInserted
  /\ everInserted' = IF last'.result = "Ok" THEN everInserted \cup {v} ELSE everInserted
  /\ UNCHANGED <<numDeleted, script, pc>>

DeleteCounted(v) ==
  /\ numDeleted < MaxOps
  /\ DeleteCall(v)
  /\ numDeleted' = IF last'.result = "Ok" THEN numDeleted + 1 ELSE numDeleted
  /\ UNCHANGED <<numInserted, everInserted, script, pc>>

NextCount ==
  \/ \E v \in CountValues : InsertCounted(v)
  \/ \E v \in CountValues : DeleteCounted(v)

SpecCount == Init /\ [][NextCount]_vars

\* main: the values it inserts, in its order (lines 273-300), and the
\* mutating calls that follow (lines 303, 329, 336).
MainInserts == <<10, 5, 15, 3, 7, 12, 18>>
MainTail == <<[op |-> "insert", arg |-> 10],
              [op |-> "delete", arg |-> 15],
              [op |-> "delete", arg |-> 20]>>

\* The driver's calls when the seven values are inserted in the given order.
MainScript(order) ==
  [i \in 1..Len(order) |-> [op |-> "insert", arg |-> order[i]]] \o MainTail

\* The driver run on every insertion order of main's seven values; main
\* itself is the run whose script is MainScript(MainInserts).
InitMain ==
  /\ root = None
  /\ last = [op |-> "new", arg |-> 0, result |-> "Ok", twoChildren |-> FALSE]
  /\ present = {}
  /\ numInserted = 0
  /\ numDeleted = 0
  /\ everInserted = {}
  /\ script \in {MainScript([i \in 1..Len(MainInserts) |-> MainInserts[p[i]]]) :
                   p \in Permutations(1..Len(MainInserts))}
  /\ pc = 0

MainInsert ==
  /\ pc < Len(script)
  /\ script[pc + 1].op = "insert"
  /\ InsertCall(script[pc + 1].arg)
  /\ pc' = pc + 1
  /\ UNCHANGED <<numInserted, numDeleted, everInserted, script>>

MainDelete ==
  /\ pc < Len(script)
  /\ script[pc + 1].op = "delete"
  /\ DeleteCall(script[pc + 1].arg)
  /\ pc' = pc + 1
  /\ UNCHANGED <<numInserted, numDeleted, everInserted, script>>

NextMain == MainInsert \/ MainDelete

SpecMain == InitMain /\ [][NextMain]_vars

----------------------------------------------------------------------------
\* Notions the properties are stated in, defined on the tree itself and
\* not through the methods.

\* The values held by the nodes of the subtree under an Option link.
ValuesOf(opt) == {n.value : n \in NodesOf(opt)}

SetMin(S) == CHOOSE x \in S : \A y \in S : x <= y
SetMax(S) == CHOOSE x \in S : \A y \in S : x >= y

\* The elements of a finite set of integers in ascending order.
RECURSIVE SortedSeq(_)
SortedSeq(S) ==
  IF S = {} THEN <<>> ELSE <<SetMin(S)>> \o SortedSeq(S \ {SetMin(S)})

StrictlyAscending(s) == \A i \in 1..(Len(s) - 1) : s[i] < s[i + 1]

SeqRange(s) == {s[i] : i \in 1..Len(s)}

\* The depths (in edges below the node) of the leaves of a node's subtree.
RECURSIVE LeafDepths(_, _)
LeafDepths(n, d) ==
  IF n.left = None /\ n.right = None THEN {d}
  ELSE (IF n.left = None THEN {} ELSE LeafDepths(n.left[1], d + 1))
       \cup (IF n.right = None THEN {} ELSE LeafDepths(n.right[1], d + 1))

\* Edges, and nodes, on the longest path from a node down to a leaf.
EdgesOnLongestPath(n) == SetMax(LeafDepths(n, 0))
NodesOnLongestPath(n) == EdgesOnLongestPath(n) + 1

\* Levels of the subtree under an Option link, 0 when absent.
Levels(opt) == IF opt = None THEN 0 ELSE NodesOnLongestPath(opt[1])

RECURSIVE Pow2(_)
Pow2(k) == IF k = 0 THEN 1 ELSE 2 * Pow2(k - 1)

\* ceil(log2(n)) for n >= 1: the least k with 2^k >= n.
CeilLog2(n) == CHOOSE k \in 0..n : Pow2(k) >= n /\ \A j \in 0..(k - 1) : Pow2(j) < n

\* Some node under the link has subtrees whose levels differ by more than 1.
Skewed(opt) == \E n \in NodesOf(opt) : Abs(Levels(n.left) - Levels(n.right)) > 1

HasTwoChildren(opt) == opt # None /\ opt[1].left # None /\ opt[1].right # None

----------------------------------------------------------------------------
\* C1: in every reachable state, for every node n every value in n's left
\* subtree is strictly less than n.value, every value in n's right subtree is
\* strictly greater, and no value occurs in two nodes.
C1_BSTOrdering ==
  /\ \A n \in NodesOf(root) :
       /\ \A x \in ValuesOf(n.left) : x < n.value
       /\ \A x \in ValuesOf(n.right) : x > n.value
  /\ Len(BinarySearchTree_in_order_traversal(root)) = Cardinality(ValuesOf(root))

\* A failing call has just returned on a tree whose root has two children,
\* one of them with a child of its own.
C1_Witness ==
  /\ last.result # "Ok"
  /\ HasTwoChildren(root)
  /\ Cardinality(NodesOf(root)) >= 4

\* C2: in_order_traversal() is strictly ascending and is the sorted sequence
\* of the abstract set; each successful delete(v) yields the previous
\* in-order sequence with v, and only v, removed.
C2_SetRefinement ==
  /\ [](/\ StrictlyAscending(BinarySearchTree_in_order_traversal(root))
        /\ BinarySearchTree_in_order_traversal(root) = SortedSeq(present))
  /\ [][(last'.op = "delete" /\ last'.result = "Ok") =>
          /\ last'.arg \in SeqRange(BinarySearchTree_in_order_traversal(root))
          /\ BinarySearchTree_in_order_traversal(root') =
               SelectSeq(BinarySearchTree_in_order_traversal(root),
                         LAMBDA x : x # last'.arg)]_vars

\* A successful delete of the value of a node with two children.
C2_Witness ==
  /\ last.op = "delete" /\ last.result = "Ok"
  /\ last.twoChildren

\* C3: insert(v) on a tree that contains v fails with DuplicateValue and
\* leaves count_nodes(), the three traversals and every search result as
\* they were.
C3_DuplicateInsertUnchanged ==
  [][(last'.op = "insert" /\ last'.arg \in ValuesOf(root)) =>
       /\ last'.result = "DuplicateValue"
       /\ BinarySearchTree_count_nodes(root') = BinarySearchTree_count_nodes(root)
       /\ BinarySearchTree_in_order_traversal(root') =
            BinarySearchTree_in_order_traversal(root)
       /\ BinarySearchTree_pre_order_traversal(root') =
            BinarySearchTree_pre_order_traversal(root)
       /\ BinarySearchTree_post_order_traversal(root') =
            BinarySearchTree_post_order_traversal(root)
       /\ \A w \in Values :
            BinarySearchTree_search(root', w) = BinarySearchTree_search(root, w)]_vars

\* insert(v) has failed on a value held by an inner node below the root.
C3_Witness ==
  /\ last.op = "insert" /\ last.result = "DuplicateValue"
  /\ \E n \in NodesOf(root) :
       /\ n.value = last.arg
       /\ n # root[1]
       /\ (n.left # None \/ n.right # None)

\* C4: delete(v) on a tree that does not contain v fails with ValueNotFound
\* and leaves the tree as it was: the same nodes with the same values and
\* links, hence the same three traversals.
C4_MissingDeleteUnchanged ==
  [][(last'.op = "delete" /\ last'.arg \notin ValuesOf(root)) =>
       /\ last'.result = "ValueNotFound"
       /\ root' = root
       /\ BinarySearchTree_in_order_traversal(root') =
            BinarySearchTree_in_order_traversal(root)
       /\ BinarySearchTree_pre_order_traversal(root') =
            BinarySearchTree_pre_order_traversal(root)
       /\ BinarySearchTree_post_order_traversal(root') =
            BinarySearchTree_post_order_traversal(root)]_vars

\* delete(v) has failed after a descent of at least two steps: v lies
\* strictly between the root's value and the value of a child of the root
\* that has a child of its own on the other side of v.
C4_Witness ==
  /\ last.op = "delete" /\ last.result = "ValueNotFound"
  /\ root # None
  /\ \/ /\ last.arg < root[1].value /\ root[1].left # None
        /\ last.arg > root[1].left[1].value
        /\ root[1].left[1].left # None
     \/ /\ last.arg > root[1].value /\ root[1].right # None
        /\ last.arg < root[1].right[1].value
        /\ root[1].right[1].right # None

\* C5: search(v) is true for every value inserted and not deleted since, and
\* false for every other value.
C5_SearchCorrect ==
  \A v \in Values : BinarySearchTree_search(root, v) <=> (v \in present)

\* A value has just been deleted from a tree that still holds smaller and
\* larger values.
C5_Witness ==
  /\ last.op = "delete" /\ last.result = "Ok"
  /\ last.arg \notin present
  /\ \E a, b \in present : a < last.arg /\ last.arg < b

\* C6 as stated: count_nodes() equals the number of distinct values
\* successfully inserted minus the number of values successfully deleted.
C6_DistinctInsertedMinusDeleted ==
  BinarySearchTree_count_nodes(root) = Cardinality(everInserted) - numDeleted

\* C6 amended: count_nodes() equals the number of successful insert calls
\* minus the number of successful delete calls.
C6_InsertsMinusDeletes ==
  BinarySearchTree_count_nodes(root) = numInserted - numDeleted

\* A value has been inserted again after its deletion.
C6_Witness ==
  /\ numInserted > Cardinality(everInserted)
  /\ numDeleted >= 1
  /\ BinarySearchTree_count_nodes(root) >= 2

\* C7: find_min() and find_max() are None exactly on the empty tree, and on
\* a non-empty tree they are the smallest and the largest value in it.
C7_MinMax ==
  /\ (BinarySearchTree_find_min(root) = None) <=> (root = None)
  /\ (BinarySearchTree_find_max(root) = None) <=> (root = None)
  /\ root # None =>
       /\ BinarySearchTree_find_min(root) = Some(SetMin(ValuesOf(root)))
       /\ BinarySearchTree_find_max(root) = Some(SetMax(ValuesOf(root)))

\* A successful delete has removed a value below the current minimum (the
\* previous minimum) from a tree that is still not empty.
C7_Witness ==
  /\ last.op = "delete" /\ last.result = "Ok"
  /\ Cardinality(ValuesOf(root)) >= 2
  /\ last.arg < SetMin(ValuesOf(root))

\* C8 as stated: height() is the number of edges on the longest path from
\* the root to a leaf, and 0 for the empty tree.
C8_HeightIsEdges ==
  BinarySearchTree_height(root) =
    IF root = None THEN 0 ELSE EdgesOnLongestPath(root[1])

\* C8 amended: height() is the number of nodes on the longest path from the
\* root to a leaf (one more than its edges), and 0 for the empty tree.
C8_HeightIsNodes ==
  BinarySearchTree_height(root) =
    IF root = None THEN 0 ELSE NodesOnLongestPath(root[1])

\* The longest path goes through the root's right child, and the root's
\* left subtree is shorter but not absent.
C8_Witness ==
  /\ HasTwoChildren(root)
  /\ Levels(root[1].right) >= Levels(root[1].left) + 1

\* C9: on a non-empty tree height() >= ceil(log2(count_nodes() + 1)), that
\* is count_nodes() <= 2^height() - 1.
C9_HeightLowerBound ==
  root # None =>
    /\ BinarySearchTree_height(root) >= CeilLog2(BinarySearchTree_count_nodes(root) + 1)
    /\ BinarySearchTree_count_nodes(root) <= Pow2(BinarySearchTree_height(root)) - 1

\* The bound is met with equality by a tree of several levels.
C9_Witness ==
  /\ Cardinality(NodesOf(root)) >= 3
  /\ Cardinality(NodesOf(root)) = Pow2(Levels(root)) - 1

\* C10: is_balanced() is true for the empty tree and otherwise true exactly
\* when the levels of the root's two subtrees differ by at most 1, whatever
\* the balance of the nodes below.
C10_ShallowBalance ==
  BinarySearchTree_is_balanced(root) <=>
    (root = None \/ Abs(Levels(root[1].left) - Levels(root[1].right)) <= 1)

\* is_balanced() is true on a tree whose root subtrees have equal levels
\* while one of them has a node skewed by more than 1.
C10_Witness ==
  /\ root # None
  /\ BinarySearchTree_is_balanced(root)
  /\ Levels(root[1].left) = Levels(root[1].right)
  /\ (Skewed(root[1].left) \/ Skewed(root[1].right))

----------------------------------------------------------------------------
\* The three orders as compositions of the orders of the two subtrees.
RECURSIVE InOrderOf(_)
InOrderOf(opt) ==
  IF opt = None THEN <<>>
  ELSE InOrderOf(opt[1].left) \o <<opt[1].value>> \o InOrderOf(opt[1].right)

RECURSIVE PreOrderOf(_)
PreOrderOf(opt) ==
  IF opt = None THEN <<>>
  ELSE <<opt[1].value>> \o PreOrderOf(opt[1].left) \o PreOrderOf(opt[1].right)

RECURSIVE PostOrderOf(_)
PostOrderOf(opt) ==
  IF opt = None THEN <<>>
  ELSE PostOrderOf(opt[1].left) \o PostOrderOf(opt[1].right) \o <<opt[1].value>>

\* The position in the script of the insert of a value.
InsertedAt(x) == CHOOSE i \in 1..Len(MainInserts) : script[i].arg = x

\* The run is main's own: the values go in in main's order.
IsMain == script = MainScript(MainInserts)

\* C11: while only inserts have been made, a value y is above a value x in
\* the tree exactly when y went in before every other value between the two
\* (x lands where the search descent ends); pre-order is self-left-right and
\* post-order left-right-self; and after main's seven inserts the
\* traversals, count, minimum, maximum, height and balance are main's.
C11_InsertionOrderShape ==
  /\ pc <= Len(MainInserts) =>
       \A n \in NodesOf(root) : \A x \in ValuesOf(root) \ {n.value} :
         (x \in ValuesOf(Some(n))) <=>
           /\ InsertedAt(n.value) < InsertedAt(x)
           /\ \A z \in ValuesOf(root) :
                ((z < x /\ n.value < z) \/ (x < z /\ z < n.value)) =>
                  InsertedAt(n.value) < InsertedAt(z)
  /\ pc <= Len(MainInserts) =>
       Cardinality(ValuesOf(root)) = pc
  /\ BinarySearchTree_pre_order_traversal(root) = PreOrderOf(root)
  /\ BinarySearchTree_post_order_traversal(root) = PostOrderOf(root)
  /\ (IsMain /\ pc = Len(MainInserts)) =>
       /\ BinarySearchTree_in_order_traversal(root) = <<3, 5, 7, 10, 12, 15, 18>>
       /\ BinarySearchTree_pre_order_traversal(root) = <<10, 5, 3, 7, 15, 12, 18>>
       /\ BinarySearchTree_post_order_traversal(root) = <<3, 7, 5, 12, 18, 15, 10>>
       /\ BinarySearchTree_count_nodes(root) = 7
       /\ BinarySearchTree_find_min(root) = Some(3)
       /\ BinarySearchTree_find_max(root) = Some(18)
       /\ BinarySearchTree_height(root) = 3
       /\ BinarySearchTree_is_balanced(root)

\* main has made its seven inserts.
C11_Witness ==
  /\ IsMain
  /\ pc = Len(MainInserts)
  /\ last.op = "insert" /\ last.arg = 18 /\ last.result = "Ok"

\* C12: in main, delete(15), called for a node with two children, succeeds
\* and leaves the in-order sequence 3,5,7,10,12,18; the following delete(20)
\* fails with ValueNotFound and height() is then 3.
C12_MainDelete ==
  IsMain =>
    /\ pc = Len(MainInserts) + 2 =>
         /\ last = [op |-> "delete", arg |-> 15, result |-> "Ok",
                    twoChildren |-> TRUE]
         /\ BinarySearchTree_in_order_traversal(root) = <<3, 5, 7, 10, 12, 18>>
    /\ pc = Len(MainInserts) + 3 =>
         /\ last.op = "delete" /\ last.arg = 20
         /\ last.result = "ValueNotFound"
         /\ BinarySearchTree_in_order_traversal(root) = <<3, 5, 7, 10, 12, 18>>
         /\ BinarySearchTree_height(root) = 3

\* main has made its last call, delete(20).
C12_Witness ==
  /\ IsMain
  /\ pc = Len(script)
  /\ last.op = "delete" /\ last.arg = 20

\* C13: whenever the root is absent (which is exactly when no value is
\* present), find_min() and find_max() are None, height() and count_nodes()
\* are 0, is_balanced() is true, the traversals are empty and delete(v)
\* fails with ValueNotFound for every v and leaves the tree empty; deleting
\* the last remaining value makes the root absent.
C13_EmptyTree ==
  /\ [](/\ (root = None) <=> (present = {})
        /\ root = None =>
             /\ BinarySearchTree_find_min(root) = None
             /\ BinarySearchTree_find_max(root) = None
             /\ BinarySearchTree_height(root) = 0
             /\ BinarySearchTree_count_nodes(root) = 0
             /\ BinarySearchTree_is_balanced(root)
             /\ BinarySearchTree_in_order_traversal(root) = <<>>
             /\ BinarySearchTree_pre_order_traversal(root) = <<>>
             /\ BinarySearchTree_post_order_traversal(root) = <<>>)
  /\ [][/\ (root = None /\ last'.op = "delete") =>
             (last'.result = "ValueNotFound" /\ root' = None)
        /\ (last'.op = "delete" /\ last'.result = "Ok"
              /\ Cardinality(NodesOf(root)) = 1) =>
             root' = None]_vars

\* The tree has been emptied by a successful delete.
C13_Witness ==
  /\ root = None
  /\ last.op = "delete" /\ last.result = "Ok"

\* C14: count_nodes() is the length of in_order_traversal(), and the
\* pre-order and post-order sequences have that length and hold the same
\* values, each once.
C14_TraversalConsistency ==
  LET in   == BinarySearchTree_in_order_traversal(root)
      pre  == BinarySearchTree_pre_order_traversal(root)
      post == BinarySearchTree_post_order_traversal(root)
  IN  /\ BinarySearchTree_count_nodes(root) = Len(in)
      /\ Len(pre) = Len(in)
      /\ Len(post) = Len(in)
      /\ SeqRange(pre) = SeqRange(in)
      /\ SeqRange(post) = SeqRange(in)
      /\ Cardinality(SeqRange(in)) = Len(in)

\* The three orders differ from one another on a tree left by a delete.
C14_Witness ==
  /\ last.op = "delete" /\ last.result = "Ok"
  /\ HasTwoChildren(root)
  /\ Cardinality(NodesOf(root)) >= 5

----------------------------------------------------------------------------
\* The reference algorithm of delete, on Option links.

\* The subtree with its leftmost node replaced by that node's right child.
RECURSIVE WithoutLeftmost(_)
WithoutLeftmost(opt) ==
  IF opt[1].left = None THEN opt[1].right
  ELSE Some([opt[1] EXCEPT !.left = WithoutLeftmost(opt[1].left)])

\* The subtree after the reference delete of a value it holds.
RECURSIVE ReferenceDelete(_, _)
ReferenceDelete(opt, v) ==
  IF opt = None THEN None
  ELSE IF v < opt[1].value
    THEN Some([opt[1] EXCEPT !.left = ReferenceDelete(opt[1].left, v)])
  ELSE IF v > opt[1].value
    THEN Some([opt[1] EXCEPT !.right = ReferenceDelete(opt[1].right, v)])
  ELSE IF opt[1].left = None THEN opt[1].right
  ELSE IF opt[1].right = None THEN opt[1].left
  ELSE Some([value |-> SetMin(ValuesOf(opt[1].right)),
             left  |-> opt[1].left,
             right |-> WithoutLeftmost(opt[1].right)])

\* The pairs <<parent value, side, child value>> of the tree's links.
Links(opt) ==
  {<<n.value, "left", n.left[1].value>> : n \in {m \in NodesOf(opt) : m.left # None}}
  \cup
  {<<n.value, "right", n.right[1].value>> : n \in {m \in NodesOf(opt) : m.right # None}}

\* C15: a successful delete(v) produces exactly the tree of the reference
\* algorithm; in particular a link between two values that are neither v nor
\* (in the two-child case) the successor taken for v is kept as it was.
C15_DeleteShape ==
  [][(last'.op = "delete" /\ last'.result = "Ok") =>
       /\ root' = ReferenceDelete(root, last'.arg)
       /\ LET v == last'.arg
              moved == IF last'.twoChildren
                       THEN {v, SetMin({x \in ValuesOf(root) : x > v})}
                       ELSE {v}
          IN  \A l \in Links(root) :
                (l[1] \notin moved /\ l[3] \notin moved) => l \in Links(root')]_vars

\* A successful delete of the value of a node with two children: the node
\* now holds the successor, still has both subtrees, and its right child has
\* a left subtree.
C15_Witness ==
  /\ last.op = "delete" /\ last.result = "Ok"
  /\ last.twoChildren
  /\ \E n \in NodesOf(root) :
       /\ n.left # None /\ n.right # None
       /\ SetMax(ValuesOf(n.left)) < last.arg
       /\ last.arg < n.value
       /\ n.value < SetMin(ValuesOf(n.right))
       /\ n.right[1].left # None

----------------------------------------------------------------------------
\* The search descent for a value the tree does not hold: the sides taken
\* from the root down to the absent slot.
RECURSIVE DescentPath(_, _)
DescentPath(opt, v) ==
  IF opt = None THEN <<>>
  ELSE IF v < opt[1].value THEN <<"left">> \o DescentPath(opt[1].left, v)
  ELSE <<"right">> \o DescentPath(opt[1].right, v)

\* The link at the end of a path of sides.
RECURSIVE SlotAt(_, _)
SlotAt(opt, path) ==
  IF path = <<>> THEN opt
  ELSE IF opt = None THEN None
  ELSE SlotAt(IF Head(path) = "left" THEN opt[1].left ELSE opt[1].right, Tail(path))

\* The tree with the link at the end of a path made absent.
RECURSIVE Pruned(_, _)
Pruned(opt, path) ==
  IF path = <<>> \/ opt = None THEN None
  ELSE IF Head(path) = "left"
    THEN Some([opt[1] EXCEPT !.left = Pruned(opt[1].left, Tail(path))])
  ELSE Some([opt[1] EXCEPT !.right = Pruned(opt[1].right, Tail(path))])

\* C16: a successful insert(v) creates exactly one node, a leaf holding v,
\* at the absent slot where the search descent for v ends (the root of an
\* empty tree); removing that leaf gives back the previous tree.
C16_InsertAddsLeaf ==
  [][(last'.op = "insert" /\ last'.result = "Ok") =>
       LET path == DescentPath(root, last'.arg)
       IN  /\ SlotAt(root, path) = None
           /\ SlotAt(root', path) = Some(Node_new(last'.arg))
           /\ Pruned(root', path) = root
           /\ Cardinality(NodesOf(root')) = Cardinality(NodesOf(root)) + 1
           /\ Links(root) \subseteq Links(root')]_vars

\* A successful insert has put a leaf at least two links below the root, on
\* the left of its parent, in a tree of five or more nodes.
C16_Witness ==
  /\ last.op = "insert" /\ last.result = "Ok"
  /\ Cardinality(NodesOf(root)) >= 5
  /\ \E n \in NodesOf(root) \ {root[1]} :
       /\ n.left = Some(Node_new(last.arg))

----------------------------------------------------------------------------
\* C17: insert(v) returns Ok exactly when v is absent and DuplicateValue
\* otherwise; delete(v) returns Ok exactly when v is present and
\* ValueNotFound otherwise (no other outcome, such as a panic, occurs); and
\* at every node with two children, where the two-child arm of delete can
\* run, the right child is present and the delete of its subtree's minimum
\* from it returns Ok.
C17_TotalOutcomes ==
  /\ [][/\ last'.op = "insert" =>
             last'.result = IF last'.arg \in ValuesOf(root)
                            THEN "DuplicateValue" ELSE "Ok"
        /\ last'.op = "delete" =>
             last'.result = IF last'.arg \in ValuesOf(root)
                            THEN "Ok" ELSE "ValueNotFound"]_vars
  /\ [](\A n \in NodesOf(root) :
          (n.left # None /\ n.right # None) =>
            Node_delete(n.right[1], Node_find_min(n.right[1])).result = "Ok")

\* A delete has succeeded through the two-child arm, and the tree still has
\* a node with two children whose successor lies below its right child.
C17_Witness ==
  /\ last.op = "delete" /\ last.result = "Ok"
  /\ last.twoChildren
  /\ \E n \in NodesOf(root) :
       n.left # None /\ n.right # None /\ n.right[1].left # None

----------------------------------------------------------------------------
\* C18: on every reachable non-empty tree each method makes a number of
\* frames bounded by the tree's size: insert, search, find_min, find_max and
\* delete at most one per level (so at most count_nodes()), the traversals,
\* count_nodes, height and is_balanced one per node; the find_min calls made
\* by the two-child arm of delete also stay within one frame per level.
C18_BoundedRecursion ==
  root # None =>
    LET size   == Cardinality(NodesOf(root))
        levels == Levels(root)
    IN  /\ levels <= size
        /\ \A v \in Values :
             /\ Frames_insert(root[1], v) >= 1 /\ Frames_insert(root[1], v) <= levels
             /\ Frames_search(root[1], v) >= 1 /\ Frames_search(root[1], v) <= levels
             /\ Frames_delete(root[1], v) >= 1 /\ Frames_delete(root[1], v) <= levels
             /\ Frames_delete_find_min(root[1], v) <= levels - 1
        /\ Frames_find_min(root[1]) <= levels
        /\ Frames_find_max(root[1]) <= levels
        /\ Frames_in_order_traversal(root[1]) = size
        /\ Frames_pre_order_traversal(root[1]) = size
        /\ Frames_post_order_traversal(root[1]) = size
        /\ Frames_count_nodes(root[1]) = size
        /\ Frames_height(root[1]) = size
        /\ Frames_is_balanced(root[1]) = size

\* A two-child delete has finished, and on the tree it left a further
\* delete would run the two-child arm and recurse at least two frames into
\* the right subtree.
C18_Witness ==
  /\ last.op = "delete" /\ last.result = "Ok" /\ last.twoChildren
  /\ \E n \in NodesOf(root) :
       /\ n.left # None /\ n.right # None
       /\ Frames_delete(n, n.value) >= 3

----------------------------------------------------------------------------
\* C19: for every reachable tree and every value v it does not hold,
\* insert(v) followed by delete(v) both return Ok and give back the same
\* tree: the same root, hence the same three traversals and height.
C19_InsertDeleteRoundTrip ==
  \A v \in Values \ ValuesOf(root) :
    LET a == BinarySearchTree_insert(root, v)
        b == BinarySearchTree_delete(a.root, v)
    IN  /\ a.result = "Ok"
        /\ b.result = "Ok"
        /\ b.root = root
        /\ BinarySearchTree_pre_order_traversal(b.root) =
             BinarySearchTree_pre_order_traversal(root)
        /\ BinarySearchTree_in_order_traversal(b.root) =
             BinarySearchTree_in_order_traversal(root)
        /\ BinarySearchTree_post_order_traversal(b.root) =
             BinarySearchTree_post_order_traversal(root)
        /\ BinarySearchTree_height(b.root) = BinarySearchTree_height(root)

\* A value has just been deleted from a tree of four or more nodes in which
\* inserting it again would put it at least two links below the root.
C19_Witness ==
  /\ last.op = "delete" /\ last.result = "Ok"
  /\ last.arg \notin ValuesOf(root)
  /\ Cardinality(NodesOf(root)) >= 4
  /\ Len(DescentPath(root, last.arg)) >= 2

\* C20: a successful insert raises count_nodes() by exactly 1 and height()
\* by 0 or 1; a successful delete lowers count_nodes() by exactly 1 and
\* height() by 0 or 1; a failing insert or delete changes neither.
C20_StepBounds ==
  [][LET dc == BinarySearchTree_count_nodes(root') - BinarySearchTree_count_nodes(root)
         dh == BinarySearchTree_height(root') - BinarySearchTree_height(root)
     IN  /\ (last'.op = "insert" /\ last'.result = "Ok") => (dc = 1 /\ dh \in {0, 1})
         /\ (last'.op = "delete" /\ last'.result = "Ok") => (dc = -1 /\ dh \in {-1, 0})
         /\ last'.result # "Ok" => (dc = 0 /\ dh = 0)]_vars

\* A successful delete through the two-child arm has left a tree of three
\* or more levels.
C20_Witness ==
  /\ last.op = "delete" /\ last.result = "Ok" /\ last.twoChildren
  /\ BinarySearchTree_height(root) >= 3

====
